---- MODULE Spec2Model ----
(***************************************************************************)
(* Model of the two algorithmic components of the tgbot ML scripts:        *)
(*   - ChatContext (src/ig/src/chatContext.py): the multi-turn token       *)
(*     buffer with its marker-scanning trim of a raw generation output;    *)
(*   - Search (src/bert/src/search/search.py and its copy under            *)
(*     src/infrastructure/services/question): the linear-scan nearest      *)
(*     neighbour index over precomputed embeddings.                        *)
(* Spec drives a ChatContext with arbitrary calls, SpecRounds drives it    *)
(* with a provider that is re-prompted with the full flattened buffer,     *)
(* SpecSearch drives a Search instance.                                    *)
(***************************************************************************)
EXTENDS Integers, Sequences, FiniteSets, TLC

VARIABLES
    \* ---- ChatContext fields
    context,          \* self.context: list of segments (lists of tokens)
    contextLength,    \* self.contextLength
    \* ---- observation of the last ChatContext call (history only)
    lastOp,           \* "init" | "user" | "model" | "get"
    lastArg,          \* tokens_input / model_output of the last call
    prevContext,      \* self.context before the last call
    prevLength,       \* self.contextLength before the last call
    userLens,         \* len(tokens_input) of every add_user_input so far
    calls,            \* number of calls made on the buffer
    segRoles,         \* "user" | "model" for every segment of self.context
    flatReturned,     \* what the last call returned, when it was get_context
    flatBefore,       \* what the call before it returned, when both were get_context
    \* ---- Search fields
    impl,             \* which copy of search.py / model.py: "bert" | "question"
    data_embeddings,  \* self.data_embeddings: None or the list of vectors
    \* ---- observation of the last Search call (history only)
    searchOp,         \* "init" | "set_data" | "query" | "search"
    searchArg,        \* the argument of the last call
    outcome,          \* what the last call returned or raised
    encodeCalls,      \* texts handed to the provider by the last call, in order
    corpusTexts,      \* the texts of the last successful set_data
    prevEmbeddings    \* self.data_embeddings before the last call

chatVars == <<context, contextLength, lastOp, lastArg, prevContext, prevLength,
              userLens, calls, segRoles, flatReturned, flatBefore>>

searchVars == <<impl, data_embeddings, searchOp, searchArg, outcome,
                encodeCalls, corpusTexts, prevEmbeddings>>

vars == <<chatVars, searchVars>>

-----------------------------------------------------------------------------
(* Bounds of the model                                                     *)

MaxCalls == 3
MaxUserLen == 1
MaxGenLen == 2
MaxRounds == 3
MaxCorpus == 2

-----------------------------------------------------------------------------
(* Generic helpers                                                         *)

Min(a, b) == IF a < b THEN a ELSE b
Max(a, b) == IF a > b THEN a ELSE b

BoundedSeq(S, n) == UNION {[1..k -> S] : k \in 0..n}

\* Python's s[lo:hi]: negative indices count from the end, both are clamped.
PyIndex(i, n) == IF i < 0 THEN Max(i + n, 0) ELSE Min(i, n)

PySlice(s, lo, hi) ==
    LET l == PyIndex(lo, Len(s))
        h == PyIndex(hi, Len(s))
    IN  IF l >= h THEN <<>> ELSE SubSeq(s, l + 1, h)

\* s[-lo:], the last lo elements, in place of s[lo:]
PyDropFromEnd(s, lo) == PySlice(s, -lo, Len(s))

\* Python's s[lo:]
PyDrop(s, lo) == PySlice(s, lo, Len(s))

-----------------------------------------------------------------------------
(* ChatContext                                                             *)

\* ChatContext(11111111, 99999999) of the test script
user_special_token == 11111111
model_special_token == 99999999

\* only the model marker recognised
IsModelSpecialToken(token) ==
    token = model_special_token

IsSpecialToken(token) ==
    token = user_special_token \/ token = model_special_token

\* the segments flattened last to first
RECURSIVE get_context_reversed(_)
get_context_reversed(ctx) ==
    IF ctx = <<>> THEN <<>>
    ELSE ctx[Len(ctx)] \o get_context_reversed(SubSeq(ctx, 1, Len(ctx) - 1))

\* get_context(): every token of every segment, in insertion order (the
\* array of C ints it goes through holds every token used here unchanged)
RECURSIVE get_context(_)
get_context(ctx) ==
    IF ctx = <<>> THEN <<>>
    ELSE get_context(SubSeq(ctx, 1, Len(ctx) - 1)) \o ctx[Len(ctx)]

\* the scan keeping the first marker of the leading run instead of the last
RECURSIVE ScanFromFirstMarker(_, _, _, _)
ScanFromFirstMarker(clean, index, startSliceIndex, isStartIndexFound) ==
    IF index >= Len(clean) THEN <<startSliceIndex, -1>>
    ELSE IF IsSpecialToken(clean[index + 1])
         THEN IF ~isStartIndexFound
              THEN ScanFromFirstMarker(clean, index + 1,
                       IF startSliceIndex = -1 THEN index ELSE startSliceIndex,
                       isStartIndexFound)
              ELSE <<startSliceIndex, index>>
         ELSE ScanFromFirstMarker(clean, index + 1, startSliceIndex, TRUE)

\* The scan loop of trim_model_output from position index on; the result is
\* <<startSliceIndex, endSliceIndex>> (0-based positions, -1 when not set).
RECURSIVE ScanFrom(_, _, _, _)
ScanFrom(clean, index, startSliceIndex, isStartIndexFound) ==
    IF index >= Len(clean) THEN <<startSliceIndex, -1>>
    ELSE IF IsSpecialToken(clean[index + 1])
         THEN IF ~isStartIndexFound
              THEN ScanFrom(clean, index + 1, index, isStartIndexFound)
              ELSE <<startSliceIndex, index>>
         ELSE ScanFrom(clean, index + 1, startSliceIndex, TRUE)

\* the slice taken one position early
trim_model_output_from_marker(raw, length) ==
    LET clean_model_output == PyDrop(raw, length)
        idx == ScanFrom(clean_model_output, 0, -1, FALSE)
    IN  PySlice(clean_model_output, idx[1], idx[2])

trim_model_output(raw, length) ==
    LET clean_model_output == PyDrop(raw, length)
        idx == ScanFrom(clean_model_output, 0, -1, FALSE)
    IN  PySlice(clean_model_output, idx[1] + 1, idx[2])

\* the two markers appended in the wrong order
add_user_input_swapped(ctx, len, tokens_input) ==
    << ctx \o << <<model_special_token>>, tokens_input, <<user_special_token>> >>,
       len + Len(tokens_input) + 2 >>

\* only one of the two markers counted
add_user_input_one_marker(ctx, len, tokens_input) ==
    << ctx \o << <<user_special_token>>, tokens_input, <<model_special_token>> >>,
       len + Len(tokens_input) + 1 >>

\* fields <<context, contextLength>> after add_user_input(tokens_input)
add_user_input(ctx, len, tokens_input) ==
    << ctx \o << <<user_special_token>>, tokens_input, <<model_special_token>> >>,
       len + Len(tokens_input) + 2 >>

\* the stored model turn written over the last segment
add_model_output_replacing(ctx, len, model_output) ==
    << IF ctx = <<>> THEN << trim_model_output(model_output, len) >>
       ELSE [ctx EXCEPT ![Len(ctx)] = trim_model_output(model_output, len)],
       len >>

\* contextLength advanced by the stored model turn
add_model_output_counted(ctx, len, model_output) ==
    << Append(ctx, trim_model_output(model_output, len)),
       len + Len(trim_model_output(model_output, len)) >>

\* fields <<context, contextLength>> after add_model_output(model_output)
add_model_output(ctx, len, model_output) ==
    << Append(ctx, trim_model_output(model_output, len)), len >>

-----------------------------------------------------------------------------
(* Inputs of the ChatContext calls                                         *)

\* the user turn and the generated continuation of the test script
ScenarioUserTurn == <<1659, 355, 15258, 35, 8353, 278, 13327, 203>>
ScenarioModelTurn == <<50257, 16676, 694, 453, 26624, 35, 50258, 203>>
ScenarioGenerated ==
    <<model_special_token, model_special_token>> \o ScenarioModelTurn
        \o <<user_special_token, user_special_token>>
ScenarioModelOutput ==
    <<user_special_token>> \o ScenarioUserTurn \o <<model_special_token>>
        \o ScenarioGenerated

UserVocab == {203}
GenVocab == {50257}
GenTokens == {user_special_token, model_special_token} \cup GenVocab

UserInputs == BoundedSeq(UserVocab, MaxUserLen) \cup {ScenarioUserTurn}

Generated == BoundedSeq(GenTokens, MaxGenLen) \cup {ScenarioGenerated}

\* What the provider echoes of its prompt: all of it, only as many tokens as
\* the buffer assumes, or nothing.
Echoes(ctx, len) ==
    LET flat == get_context(ctx)
    IN  {flat, SubSeq(flat, 1, Min(len, Len(flat))), <<>>}

RawOutputs(ctx, len) == {e \o g : e \in Echoes(ctx, len), g \in Generated}

-----------------------------------------------------------------------------
(* ChatContext: initial state and calls                                    *)

\* the value a get_context call returned / no such call
FlatOf(tokens) == [called |-> TRUE, value |-> tokens]
NotCalled == [called |-> FALSE, value |-> <<>>]

ChatInit ==
    /\ context = <<>>
    /\ contextLength = 0
    /\ lastOp = "init"
    /\ lastArg = <<>>
    /\ prevContext = <<>>
    /\ prevLength = 0
    /\ userLens = <<>>
    /\ calls = 0
    /\ segRoles = <<>>
    /\ flatReturned = NotCalled
    /\ flatBefore = NotCalled

AddUserInput ==
    /\ calls < MaxCalls
    /\ \E tokens_input \in UserInputs :
          LET after == add_user_input(context, contextLength, tokens_input)
          IN  /\ context' = after[1]
              /\ contextLength' = after[2]
              /\ lastOp' = "user"
              /\ lastArg' = tokens_input
              /\ userLens' = Append(userLens, Len(tokens_input))
    /\ prevContext' = context
    /\ prevLength' = contextLength
    /\ calls' = calls + 1
    /\ segRoles' = segRoles \o <<"user", "user", "user">>
    /\ flatReturned' = NotCalled
    /\ flatBefore' = NotCalled
    /\ UNCHANGED searchVars

AddModelOutput ==
    /\ calls < MaxCalls
    /\ \E model_output \in RawOutputs(context, contextLength) :
          LET after == add_model_output(context, contextLength, model_output)
          IN  /\ context' = after[1]
              /\ contextLength' = after[2]
              /\ lastOp' = "model"
              /\ lastArg' = model_output
    /\ prevContext' = context
    /\ prevLength' = contextLength
    /\ calls' = calls + 1
    /\ segRoles' = Append(segRoles, "model")
    /\ flatReturned' = NotCalled
    /\ flatBefore' = NotCalled
    /\ UNCHANGED userLens
    /\ UNCHANGED searchVars

GetContext ==
    /\ flatReturned' = FlatOf(get_context(context))
    /\ flatBefore' = flatReturned
    /\ lastOp' = "get"
    /\ lastArg' = <<>>
    /\ prevContext' = context
    /\ prevLength' = contextLength
    /\ UNCHANGED <<context, contextLength, userLens, calls, segRoles>>
    /\ UNCHANGED searchVars

-----------------------------------------------------------------------------
(* ChatContext driven in rounds: a user turn, then the output of a         *)
(* provider that was prompted with get_context() and echoes all of it,     *)
(* followed by new marker-free content and one closing marker.             *)

NewContents == BoundedSeq(GenVocab, MaxGenLen) \ {<<>>}

RoundUserInput ==
    /\ lastOp # "user"
    /\ calls < 2 * MaxRounds
    /\ \E tokens_input \in UserInputs :
          LET after == add_user_input(context, contextLength, tokens_input)
          IN  /\ context' = after[1]
              /\ contextLength' = after[2]
              /\ lastOp' = "user"
              /\ lastArg' = tokens_input
              /\ userLens' = Append(userLens, Len(tokens_input))
    /\ prevContext' = context
    /\ prevLength' = contextLength
    /\ calls' = calls + 1
    /\ segRoles' = segRoles \o <<"user", "user", "user">>
    /\ flatReturned' = NotCalled
    /\ flatBefore' = NotCalled
    /\ UNCHANGED searchVars

RoundModelOutput ==
    /\ lastOp = "user"
    /\ \E c \in NewContents, marker \in {user_special_token, model_special_token} :
          LET model_output == get_context(context) \o c \o <<marker>>
              after == add_model_output(context, contextLength, model_output)
          IN  /\ context' = after[1]
              /\ contextLength' = after[2]
              /\ lastOp' = "model"
              /\ lastArg' = model_output
    /\ prevContext' = context
    /\ prevLength' = contextLength
    /\ calls' = calls + 1
    /\ segRoles' = Append(segRoles, "model")
    /\ flatReturned' = NotCalled
    /\ flatBefore' = NotCalled
    /\ UNCHANGED userLens
    /\ UNCHANGED searchVars

-----------------------------------------------------------------------------
(* Scores: exact fractions <<numerator, denominator>> in lowest terms      *)

Abs(x) == IF x < 0 THEN -x ELSE x

RECURSIVE GCD(_, _)
GCD(a, b) == IF b = 0 THEN a ELSE GCD(b, a % b)

Frac(n, d) == LET g == GCD(Abs(n), d) IN <<n \div g, d \div g>>

Zero == <<0, 1>>
One == <<1, 1>>

FracGT(x, y) == x[1] * y[2] > y[1] * x[2]
FracGE(x, y) == x[1] * y[2] >= y[1] * x[2]

-----------------------------------------------------------------------------
(* The embedding provider. A vector <<x, y>> stands for (x/Unit, y/Unit).  *)

Unit == 5

Dot(v, w) == v[1] * w[1] + v[2] * w[2]

\* the L2 norm in the same units (every vector used has an integral one)
Norm(v) == CHOOSE n \in 0..(Abs(v[1]) + Abs(v[2])) : n * n = Dot(v, v)

\* torch.nn.functional.normalize(v, p=2): v / max(norm, eps)
normalize(v) ==
    IF Norm(v) = 0 THEN v
    ELSE <<(v[1] * Unit) \div Norm(v), (v[2] * Unit) \div Norm(v)>>

RaisingTexts == {"bad"}

\* the pooled hidden state the network computes for a text
Pooled(text) ==
    CASE text = "a"  -> <<3, 4>>
      [] text = "a2" -> <<6, 8>>
      [] text = "o"  -> <<-4, 3>>

Texts == {"a", "a2", "o"} \cup RaisingTexts

\* Model.get_vector: the bert copy returns the pooled state as it is, the
\* question copy normalizes it.
get_vector(im, text) ==
    IF im = "bert" THEN Pooled(text) ELSE normalize(Pooled(text))

\* the dot product without the division by the norms
dot_product(q, v) == Frac(Dot(q, v), Unit * Unit)

\* torch.cosine_similarity(q, v): dot / max(|q| * |v|, eps)
torch_cosine_similarity(q, v) ==
    IF Norm(q) * Norm(v) = 0 THEN Zero ELSE Frac(Dot(q, v), Norm(q) * Norm(v))

\* Search.similarity of the question copy: (q @ v.T).diag()[0]
similarity(q, v) == Frac(Dot(q, v), Unit * Unit)

Score(im, q, v) ==
    IF im = "bert" THEN torch_cosine_similarity(q, v) ELSE similarity(q, v)

-----------------------------------------------------------------------------
(* Search                                                                  *)

ListOf(vs) == [isNone |-> FALSE, vectors |-> vs]

\* the class attribute initialised to an empty list
EmptyList == ListOf(<<>>)

\* the class attribute data_embeddings = None
None == [isNone |-> TRUE, vectors |-> <<>>]

\* what a call returned (a set_data that returns has no result) or raised
Returned(i, s) == [raised |-> "", data_index |-> i, similarity |-> s]
Raised(e) == [raised |-> e, data_index |-> -1, similarity |-> Zero]
NoResult == Returned(-1, Zero)

\* the comparison written >=
IsBetterOrEqual(s, best) == FracGE(s, best)

\* `if s > similarity`
IsBetter(s, best) == FracGT(s, best)

\* the running best started below every score
MinusOne == <<-1, 1>>

\* `similarity = 0`
InitialSimilarity == Zero

\* the loop of search from position index on; <<data_index, similarity>>
RECURSIVE SearchFrom(_, _, _, _, _, _)
SearchFrom(im, vectors, query_vector, index, best, data_index) ==
    IF index >= Len(vectors) THEN <<data_index, best>>
    ELSE LET s == Score(im, query_vector, vectors[index + 1])
         IN  IF IsBetter(s, best)
             THEN SearchFrom(im, vectors, query_vector, index + 1, s, index)
             ELSE SearchFrom(im, vectors, query_vector, index + 1, best, data_index)

\* the ordinal of the best entry counted from 1
search_one_based(im, emb, query_vector) ==
    IF emb.isNone THEN Raised("TypeError")
    ELSE LET r == SearchFrom(im, emb.vectors, query_vector, 0, InitialSimilarity, -1)
         IN  Returned(IF r[1] = -1 THEN -1 ELSE r[1] + 1, r[2])

\* search(query_vector): len(None) raises TypeError
search(im, emb, query_vector) ==
    IF emb.isNone THEN Raised("TypeError")
    ELSE LET r == SearchFrom(im, emb.vectors, query_vector, 0, InitialSimilarity, -1)
         IN  Returned(r[1], r[2])

\* query with the provider's error caught and "no match" returned
query_swallowing(im, emb, text) ==
    IF text \in RaisingTexts THEN Returned(-1, Zero)
    ELSE search(im, emb, get_vector(im, text))

\* query(text): the provider is called first, then the corpus is scanned
query(im, emb, text) ==
    IF text \in RaisingTexts THEN Raised("ProviderError")
    ELSE search(im, emb, get_vector(im, text))

\* number of texts the loop of set_data hands to the provider
Encoded(items) ==
    IF \E k \in 1..Len(items) : items[k] \in RaisingTexts
    THEN CHOOSE k \in 1..Len(items) :
            /\ items[k] \in RaisingTexts
            /\ \A j \in 1..(k - 1) : items[j] \notin RaisingTexts
    ELSE Len(items)

\* the vectors of the texts, in input order
EmbedAll(im, items) == [k \in 1..Len(items) |-> get_vector(im, items[k])]

\* set_data filling the stored list in place, text by text
set_data_in_place(im, emb, data) ==
    IF ~data.isList THEN <<Raised("TypeError"), emb, <<>> >>
    ELSE IF Len(data.items) = 0 THEN <<Raised("ValueError"), emb, <<>> >>
    ELSE IF \E k \in 1..Len(data.items) : data.items[k] \in RaisingTexts
    THEN <<Raised("ProviderError"),
           ListOf(EmbedAll(im, SubSeq(data.items, 1, Encoded(data.items) - 1))),
           SubSeq(data.items, 1, Encoded(data.items))>>
    ELSE <<NoResult, ListOf(EmbedAll(im, data.items)), data.items>>

\* set_data without the isinstance check
set_data_unchecked(im, emb, data) ==
    IF Len(data.items) = 0 THEN <<Raised("ValueError"), emb, <<>> >>
    ELSE IF \E k \in 1..Len(data.items) : data.items[k] \in RaisingTexts
    THEN <<Raised("ProviderError"), emb, SubSeq(data.items, 1, Encoded(data.items))>>
    ELSE <<NoResult, ListOf(EmbedAll(im, data.items)), data.items>>

\* set_data appending to the stored list instead of replacing it
set_data_merging(im, emb, data) ==
    IF ~data.isList THEN <<Raised("TypeError"), emb, <<>> >>
    ELSE IF Len(data.items) = 0 THEN <<Raised("ValueError"), emb, <<>> >>
    ELSE IF \E k \in 1..Len(data.items) : data.items[k] \in RaisingTexts
    THEN <<Raised("ProviderError"), emb, SubSeq(data.items, 1, Encoded(data.items))>>
    ELSE <<NoResult, ListOf(emb.vectors \o EmbedAll(im, data.items)), data.items>>

\* set_data(data): <<outcome, data_embeddings after, provider calls>>
set_data(im, emb, data) ==
    IF ~data.isList THEN <<Raised("TypeError"), emb, <<>> >>
    ELSE IF Len(data.items) = 0 THEN <<Raised("ValueError"), emb, <<>> >>
    ELSE IF \E k \in 1..Len(data.items) : data.items[k] \in RaisingTexts
    THEN <<Raised("ProviderError"), emb, SubSeq(data.items, 1, Encoded(data.items))>>
    ELSE <<NoResult, ListOf(EmbedAll(im, data.items)), data.items>>

-----------------------------------------------------------------------------
(* Inputs of the Search calls                                              *)

DataArgs ==
    {[isList |-> TRUE, items |-> s] : s \in BoundedSeq(Texts, MaxCorpus)}
        \cup {[isList |-> FALSE, items |-> s] : s \in {<<>>, <<"a">>}}

QueryVectors == {<<4, 3>>, <<4, -3>>, <<-3, 4>>, <<6, 8>>, <<0, 0>>}

-----------------------------------------------------------------------------
(* Search: initial state and calls                                         *)

SearchInit ==
    /\ impl \in {"bert", "question"}
    /\ data_embeddings = None
    /\ searchOp = "init"
    /\ searchArg = <<>>
    /\ outcome = NoResult
    /\ encodeCalls = <<>>
    /\ corpusTexts = <<>>
    /\ prevEmbeddings = None

SetData ==
    /\ \E data \in DataArgs :
          LET r == set_data(impl, data_embeddings, data)
          IN  /\ outcome' = r[1]
              /\ data_embeddings' = r[2]
              /\ encodeCalls' = r[3]
              /\ searchArg' = data
              /\ corpusTexts' = IF r[1].raised = "" THEN data.items ELSE corpusTexts
    /\ searchOp' = "set_data"
    /\ prevEmbeddings' = data_embeddings
    /\ UNCHANGED impl
    /\ UNCHANGED chatVars

Query ==
    /\ \E text \in Texts :
          /\ outcome' = query(impl, data_embeddings, text)
          /\ searchArg' = text
          /\ encodeCalls' = <<text>>
    /\ searchOp' = "query"
    /\ prevEmbeddings' = data_embeddings
    /\ UNCHANGED <<impl, data_embeddings, corpusTexts>>
    /\ UNCHANGED chatVars

SearchVector ==
    /\ \E query_vector \in QueryVectors :
          /\ outcome' = search(impl, data_embeddings, query_vector)
          /\ searchArg' = query_vector
    /\ searchOp' = "search"
    /\ encodeCalls' = <<>>
    /\ prevEmbeddings' = data_embeddings
    /\ UNCHANGED <<impl, data_embeddings, corpusTexts>>
    /\ UNCHANGED chatVars

-----------------------------------------------------------------------------
(* Specifications                                                          *)

Init == ChatInit /\ SearchInit /\ impl = "bert"

Next == AddUserInput \/ AddModelOutput \/ GetContext

Spec == Init /\ [][Next]_vars

NextRounds == RoundUserInput \/ RoundModelOutput

SpecRounds == Init /\ [][NextRounds]_vars

InitSearch == ChatInit /\ SearchInit

NextSearch == SetData \/ Query \/ SearchVector

SpecSearch == InitSearch /\ [][NextSearch]_vars

-----------------------------------------------------------------------------
(* Vocabulary of the properties                                            *)

Marker(token) == token \in {user_special_token, model_special_token}

Last(seq) == seq[Len(seq)]

IsPrefix(p, seq) == Len(p) <= Len(seq) /\ SubSeq(seq, 1, Len(p)) = p

\* what follows the first n tokens of seq
After(seq, n) == SubSeq(seq, n + 1, Len(seq))

\* the length of the run of marker tokens that leads g
LeadingMarkers(g) ==
    CHOOSE k \in 0..Len(g) :
        /\ \A j \in 1..k : Marker(g[j])
        /\ k = Len(g) \/ ~Marker(g[k + 1])

\* g is markers*, then a non-empty marker-free run, then a marker, then anything
HasTurnForm(g) ==
    /\ LeadingMarkers(g) < Len(g)
    /\ \E e \in (LeadingMarkers(g) + 2)..Len(g) : Marker(g[e])

\* the marker-free run of such a g
TurnOf(g) ==
    LET i == LeadingMarkers(g)
        e == CHOOSE e \in (i + 2)..Len(g) :
                 Marker(g[e]) /\ \A j \in (i + 1)..(e - 1) : ~Marker(g[j])
    IN  SubSeq(g, i + 1, e - 1)

RECURSIVE SumPlusTwo(_)
SumPlusTwo(lens) ==
    IF lens = <<>> THEN 0
    ELSE SumPlusTwo(SubSeq(lens, 1, Len(lens) - 1)) + Last(lens) + 2

\* the buffer held exactly one user turn and no model turn before the last call
OneUserTurnBefore ==
    /\ Len(userLens) = 1
    /\ Len(prevContext) = 3

-----------------------------------------------------------------------------
(* ChatContext: the claims                                                 *)

\* C1: on a buffer holding exactly one user turn, a raw output made of the
\* flattened buffer, any leading markers, a non-empty marker-free run c, a
\* marker and anything else makes add_model_output store exactly c as the new
\* last segment; the raw output of the test script stores its model turn.
C1_FirstRoundTrim ==
    (lastOp = "model" /\ OneUserTurnBefore
        /\ IsPrefix(get_context(prevContext), lastArg))
    => LET g == After(lastArg, Len(get_context(prevContext)))
       IN  /\ HasTurnForm(g)
              => /\ Len(context) = Len(prevContext) + 1
                 /\ Last(context) = TurnOf(g)
           /\ (prevContext[2] = ScenarioUserTurn /\ lastArg = ScenarioModelOutput)
              => Last(context) = ScenarioModelTurn

C1_Witness ==
    /\ lastOp = "model"
    /\ OneUserTurnBefore
    /\ prevContext = << <<11111111>>, ScenarioUserTurn, <<99999999>> >>
    /\ lastArg = ScenarioModelOutput
    /\ Last(context) = <<50257, 16676, 694, 453, 26624, 35, 50258, 203>>

\* C2 (as claimed): in every round of a provider re-prompted with the full
\* flattened buffer, raw = get_context() + c + marker, the stored segment is c.
C2_EveryRoundStoresNewContent ==
    lastOp = "model"
    => Last(context)
         = SubSeq(lastArg, Len(get_context(prevContext)) + 1, Len(lastArg) - 1)

\* C3: contextLength is the sum of len(tokens) + 2 over the user turns so far,
\* and add_model_output leaves it as it was.
C3_TrackedLength ==
    /\ contextLength = SumPlusTwo(userLens)
    /\ lastOp = "model" => contextLength = prevLength

C3_Witness ==
    /\ lastOp = "model"
    /\ Len(userLens) = 2
    /\ Len(Last(context)) > 0
    /\ contextLength = userLens[1] + 2 + userLens[2] + 2

\* C10: add_user_input appends the segments [userMarker], tokens, [modelMarker]
\* in that order, so the flattened buffer grows by marker + tokens + marker;
\* the 8-token turn of the test script gives length 10.
C10_UserTurnAppended ==
    lastOp = "user"
    => /\ context = prevContext
                      \o << <<user_special_token>>, lastArg, <<model_special_token>> >>
       /\ get_context(context)
            = get_context(prevContext) \o <<user_special_token>> \o lastArg
                \o <<model_special_token>>
       /\ (prevContext = <<>> /\ lastArg = ScenarioUserTurn)
          => /\ contextLength = 10
             /\ get_context(context)
                  = <<11111111, 1659, 355, 15258, 35, 8353, 278, 13327, 203, 99999999>>

C10_Witness ==
    /\ lastOp = "user"
    /\ prevContext = <<>>
    /\ lastArg = ScenarioUserTurn
    /\ contextLength = 10

-----------------------------------------------------------------------------
(* Search: vocabulary of the properties                                    *)

\* the last call scanned the corpus and returned a result
Scanned ==
    /\ searchOp \in {"query", "search"}
    /\ outcome.raised = ""

\* the query vector of the last scan
LastQueryVector ==
    IF searchOp = "query" THEN get_vector(impl, searchArg) ELSE searchArg

\* the similarity score of corpus entry k (1-based) against the last query vector
ScoreOf(k) == Score(impl, LastQueryVector, data_embeddings.vectors[k])

Ordinals == 1..Len(data_embeddings.vectors)

IsMaxScore(s) ==
    /\ \E k \in Ordinals : ScoreOf(k) = s
    /\ \A k \in Ordinals : FracGE(s, ScoreOf(k))

\* v and w point in the same direction
SameDirection(v, w) == v[1] * w[2] = v[2] * w[1] /\ Dot(v, w) > 0

\* the last call was query(text) with text one of the corpus texts
SelfQuery ==
    /\ searchOp = "query"
    /\ \E k \in 1..Len(corpusTexts) : corpusTexts[k] = searchArg

-----------------------------------------------------------------------------
(* Search: the claims                                                      *)

\* C4: when the maximum score over the corpus is > 0, search returns that
\* maximum and the smallest ordinal whose score equals it.
C4_ArgmaxEarliest ==
    Scanned
    => \A s \in {ScoreOf(k) : k \in Ordinals} :
          (IsMaxScore(s) /\ FracGT(s, Zero))
          => /\ outcome.similarity = s
             /\ outcome.data_index + 1 \in Ordinals
             /\ ScoreOf(outcome.data_index + 1) = s
             /\ \A k \in Ordinals : ScoreOf(k) = s => outcome.data_index + 1 <= k

C4_Witness ==
    /\ Scanned
    /\ \E i, j \in Ordinals :
          /\ i < j
          /\ ScoreOf(i) = ScoreOf(j)
          /\ IsMaxScore(ScoreOf(i))
          /\ FracGT(ScoreOf(i), Zero)
          /\ outcome.data_index = i - 1

\* C5: on a non-empty corpus whose every score is <= 0 the result is the
\* sentinel -1 with score 0, and the ordinal returned never has a score <= 0.
C5_FloorAtZero ==
    Scanned
    => /\ (\A k \in Ordinals : FracGE(Zero, ScoreOf(k)))
          => outcome.data_index = -1 /\ outcome.similarity = Zero
       /\ outcome.data_index # -1
          => /\ outcome.data_index + 1 \in Ordinals
             /\ FracGT(ScoreOf(outcome.data_index + 1), Zero)

C5_Witness ==
    /\ Scanned
    /\ Len(data_embeddings.vectors) = 2
    /\ FracGT(Zero, ScoreOf(1))
    /\ ScoreOf(2) = Zero
    /\ outcome.data_index = -1
    /\ outcome.similarity = Zero

\* C6 (as claimed): query(text) with text the corpus entry at ordinal k returns
\* ordinal k with score 1.0, for every such k.
C6_SelfMatchReturnsOwnOrdinal ==
    (SelfQuery /\ outcome.raised = "")
    => \A k \in 1..Len(corpusTexts) :
          corpusTexts[k] = searchArg
          => outcome.data_index = k - 1 /\ outcome.similarity = One

\* C6 (amended): query(text) with text the corpus entry at ordinal k returns
\* score 1.0 and the smallest ordinal whose stored vector points in the same
\* direction as entry k's vector; that is k itself when no earlier entry does.
C6_SelfMatchReturnsEarliestTie ==
    (SelfQuery /\ outcome.raised = "")
    => \A k \in 1..Len(corpusTexts) :
          corpusTexts[k] = searchArg
          => /\ outcome.similarity = One
             /\ outcome.data_index + 1 \in 1..k
             /\ SameDirection(data_embeddings.vectors[outcome.data_index + 1],
                              data_embeddings.vectors[k])
             /\ \A j \in 1..outcome.data_index :
                   ~SameDirection(data_embeddings.vectors[j],
                                  data_embeddings.vectors[k])

C6_Witness ==
    /\ SelfQuery
    /\ corpusTexts = <<"a", "a2">>
    /\ searchArg = "a2"
    /\ outcome = Returned(0, One)

\* C7: set_data raises TypeError for an argument that is not a list and
\* ValueError for an empty list, and hands nothing to the provider.
C7_BuildErrors ==
    searchOp = "set_data"
    => /\ ~searchArg.isList
          => outcome.raised = "TypeError" /\ encodeCalls = <<>>
       /\ (searchArg.isList /\ searchArg.items = <<>>)
          => outcome.raised = "ValueError" /\ encodeCalls = <<>>

C7_Witness ==
    /\ searchOp = "set_data"
    /\ ~searchArg.isList
    /\ searchArg.items # <<>>
    /\ outcome.raised = "TypeError"
    /\ encodeCalls = <<>>

\* C8: a set_data that returns has called the provider once per text in input
\* order, and the stored corpus is exactly encode(texts[i]) for each i: nothing
\* of an earlier corpus is left.
C8_BuildReplaces ==
    (searchOp = "set_data" /\ outcome.raised = "")
    => /\ encodeCalls = searchArg.items
       /\ ~data_embeddings.isNone
       /\ Len(data_embeddings.vectors) = Len(searchArg.items)
       /\ \A i \in 1..Len(searchArg.items) :
             data_embeddings.vectors[i] = get_vector(impl, searchArg.items[i])

C8_Witness ==
    /\ searchOp = "set_data"
    /\ outcome.raised = ""
    /\ ~prevEmbeddings.isNone
    /\ Len(prevEmbeddings.vectors) = 2
    /\ Len(data_embeddings.vectors) = 1
    /\ data_embeddings.vectors[1] # prevEmbeddings.vectors[1]

\* C9: a query before any set_data has returned raises an error instead of
\* returning a result.
C9_QueryBeforeBuild ==
    (searchOp = "query" /\ corpusTexts = <<>>)
    => outcome.raised \in {"TypeError", "ProviderError"}

C9_Witness ==
    /\ searchOp = "query"
    /\ corpusTexts = <<>>
    /\ encodeCalls = <<searchArg>>
    /\ outcome.raised = "TypeError"

-----------------------------------------------------------------------------
(* ChatContext: further vocabulary and claims                              *)

\* the segments one after the other, first to last
RECURSIVE Concat(_)
Concat(segments) ==
    IF segments = <<>> THEN <<>> ELSE Head(segments) \o Concat(Tail(segments))

\* C11: get_context returns the stored segments concatenated in insertion
\* order and changes neither the segments nor contextLength; a second call
\* with nothing in between returns the same sequence.
C11_FlattenPure ==
    lastOp = "get"
    => /\ flatReturned = FlatOf(Concat(context))
       /\ context = prevContext
       /\ contextLength = prevLength
       /\ flatBefore.called => flatBefore.value = flatReturned.value

C11_Witness ==
    /\ lastOp = "get"
    /\ flatBefore.called
    /\ Len(context) = 4
    /\ Len(context[4]) > 0
    /\ flatReturned.value = Concat(context)

\* tail of the last add_model_output: its argument without the first
\* contextLength tokens
TailOfLast == After(lastArg, Min(prevLength, Len(lastArg)))

\* no marker follows the first non-marker token of g
NoMarkerAfterContent(g) ==
    \A j \in (LeadingMarkers(g) + 1)..Len(g) : ~Marker(g[j])

\* C13 (as claimed): when no marker follows the first non-marker token of
\* tail, the stored content is every token of tail after its leading run of
\* markers, the last token of tail included.
C13_RunsToEndOfTail ==
    (lastOp = "model" /\ NoMarkerAfterContent(TailOfLast))
    => Last(context) = After(TailOfLast, LeadingMarkers(TailOfLast))

\* C14: the extracted content begins right after the last marker of the run
\* of markers that leads tail, and at position 0 of tail when tail does not
\* start with a marker: it is an initial part of what follows that run, and a
\* non-empty one when at least two tokens follow the run.
C14_StartsAfterLeadingRun ==
    lastOp = "model"
    => LET rest == After(TailOfLast, LeadingMarkers(TailOfLast))
       IN  /\ IsPrefix(Last(context), rest)
           /\ Len(rest) >= 2 => Last(context) # <<>>

C14_Witness ==
    /\ lastOp = "model"
    /\ LeadingMarkers(TailOfLast) = 2
    /\ Last(context) # <<>>
    /\ Last(context)[1] = TailOfLast[3]

\* C15: a raw output no longer than contextLength makes add_model_output
\* append an empty segment and leave contextLength as it was.
C15_ShortOutput ==
    (lastOp = "model" /\ Len(lastArg) <= prevLength)
    => /\ context = Append(prevContext, <<>>)
       /\ contextLength = prevLength

C15_Witness ==
    /\ lastOp = "model"
    /\ Len(lastArg) = 2
    /\ ~Marker(lastArg[1])
    /\ Len(lastArg) <= prevLength
    /\ Last(context) = <<>>

\* the total length of the first n segments that add_model_output stored
RECURSIVE ModelTokens(_)
ModelTokens(n) ==
    IF n = 0 THEN 0
    ELSE ModelTokens(n - 1) + (IF segRoles[n] = "model" THEN Len(context[n]) ELSE 0)

\* C16: the flattened buffer is contextLength plus the stored model tokens
\* long, so the drop point of trim_model_output is the flattened length while
\* no non-empty model segment is stored and strictly smaller afterwards.
C16_DropPoint ==
    /\ Len(segRoles) = Len(context)
    /\ Len(get_context(context)) = contextLength + ModelTokens(Len(context))
    /\ (\A n \in 1..Len(context) : segRoles[n] = "model" => context[n] = <<>>)
       <=> contextLength = Len(get_context(context))
    /\ contextLength <= Len(get_context(context))

C16_Witness ==
    /\ lastOp = "user"
    /\ Len(context) = 7
    /\ segRoles[4] = "model"
    /\ Len(context[4]) > 0
    /\ contextLength + Len(context[4]) = Len(get_context(context))

\* seg is seq[from + 1], ..., seq[from + Len(seg)] (from counted 0-based)
OccursAt(seg, seq, from) ==
    /\ from + Len(seg) <= Len(seq)
    /\ SubSeq(seq, from + 1, from + Len(seg)) = seg

\* C17: the segment add_model_output stores holds no marker, and it is a
\* contiguous run of rawOutput that lies at positions >= contextLength.
C17_StoredSegmentClean ==
    lastOp = "model"
    => /\ \A j \in 1..Len(Last(context)) : ~Marker(Last(context)[j])
       /\ \/ Last(context) = <<>>
          \/ \E from \in prevLength..Len(lastArg) :
                 OccursAt(Last(context), lastArg, from)

C17_Witness ==
    /\ lastOp = "model"
    /\ prevLength > 0
    /\ Last(context) # <<>>
    /\ \E j \in (prevLength + 1)..Len(lastArg) : lastArg[j] = user_special_token
    /\ \E from \in (prevLength + 1)..Len(lastArg) :
           /\ OccursAt(Last(context), lastArg, from)
           /\ Marker(lastArg[from])

\* C18: add_model_output appends exactly one segment and add_user_input
\* three; either call leaves the segments stored before it as they were, in
\* order, so the flattened buffer before the call is a prefix of the
\* flattened buffer after it.
C18_AppendOnly ==
    /\ lastOp = "model" => Len(context) = Len(prevContext) + 1
    /\ lastOp = "user" => Len(context) = Len(prevContext) + 3
    /\ lastOp \in {"model", "user"}
       => /\ IsPrefix(prevContext, context)
          /\ IsPrefix(get_context(prevContext), get_context(context))

C18_Witness ==
    /\ lastOp = "model"
    /\ Len(prevContext) = 4
    /\ prevContext[4] # <<>>
    /\ Last(context) # <<>>
    /\ Last(context) # prevContext[4]
    /\ get_context(context) = get_context(prevContext) \o Last(context)

-----------------------------------------------------------------------------
(* Search: further claims                                                  *)

\* C12: when the provider raises during query or set_data the call raises
\* that error; the provider is called at most once per query and at most once
\* per corpus text per build (never again after it raised).
C12_ProviderErrorPropagates ==
    /\ searchOp = "query"
       => /\ encodeCalls = <<searchArg>>
          /\ searchArg \in RaisingTexts => outcome.raised = "ProviderError"
    /\ (searchOp = "set_data" /\ searchArg.isList)
       => /\ IsPrefix(encodeCalls, searchArg.items)
          /\ \A k \in 1..Len(encodeCalls) :
                encodeCalls[k] \in RaisingTexts
                => /\ k = Len(encodeCalls)
                   /\ outcome.raised = "ProviderError"

C12_Witness ==
    /\ searchOp = "set_data"
    /\ searchArg.items = <<"a", "bad">>
    /\ encodeCalls = <<"a", "bad">>
    /\ outcome.raised = "ProviderError"

\* the stored corpus as the last successful set_data built it
AsBuilt ==
    IF corpusTexts = <<>> THEN None ELSE ListOf(EmbedAll(impl, corpusTexts))

BuildFailed == searchOp = "set_data" /\ outcome.raised # ""

\* C19: a set_data that fails (non-list argument, empty list, or the provider
\* raising on a later text) leaves the stored corpus exactly as it was; the
\* stored corpus is at all times None or the whole corpus of the last
\* successful build, and a query that follows a failed build scans the corpus
\* from before that build.
C19_BuildAllOrNothing ==
    /\ [](/\ BuildFailed => data_embeddings = prevEmbeddings
          /\ data_embeddings = AsBuilt)
    /\ [][(BuildFailed /\ searchOp' = "query")
          => outcome' = query(impl, prevEmbeddings, searchArg')]_vars

C19_Witness ==
    /\ BuildFailed
    /\ outcome.raised = "ProviderError"
    /\ Len(encodeCalls) = 2
    /\ ~prevEmbeddings.isNone
    /\ Len(prevEmbeddings.vectors) = 2
    /\ data_embeddings = prevEmbeddings

Scanning == searchOp \in {"query", "search"}

\* C20: query and search leave the stored corpus, its entries and their
\* order, as the last successful build left it; the result of a query is
\* therefore fixed by its text and that build, however many queries came
\* before it, and a returned ordinal is -1 or within 0..len(corpus)-1.
C20_QueryReadOnly ==
    Scanning
    => /\ data_embeddings = prevEmbeddings
       /\ data_embeddings = AsBuilt
       /\ searchOp = "query" => outcome = query(impl, AsBuilt, searchArg)
       /\ outcome.raised = ""
          => outcome.data_index \in -1..(Len(data_embeddings.vectors) - 1)

C20_Witness ==
    /\ searchOp = "query"
    /\ outcome.raised = ""
    /\ Len(data_embeddings.vectors) = 2
    /\ outcome.data_index = 1
    /\ data_embeddings = prevEmbeddings

====
